---- MODULE Spec2Model ----
(***************************************************************************)
(* Hermie: the capture lifecycle of the Electron main process              *)
(* (src/src/renderer.tsx) over the SQLite store (src/unnamed/part_004).    *)
(*                                                                         *)
(* One capture attempt is one call of triggerCapture.  Its suspension      *)
(* points (the 100 ms grace delay, the launch of the snipping tool, each   *)
(* 250 ms poll sleep, the wait for the screencapture child) are the pc     *)
(* values of the attempt; everything between two suspension points runs    *)
(* without interleaving, as on the single JavaScript thread.               *)
(***************************************************************************)
EXTENDS Integers, Sequences, FiniteSets, TLC

\* ------------------------------------------------------------------ bounds
\* number of triggerCapture calls in a behaviour
MaxCaptures == 2
\* number of images the user places on the clipboard in a behaviour
MaxSnips == 2
\* number of capture:undo calls in a behaviour
MaxUndoCalls == 2
\* poll iterations of waitForClipboardImage (the source default is 40)
maxAttempts == 3
\* number of review:grade calls in a behaviour
MaxGrades == 1
\* number of review:grade calls in a behaviour of the review engine alone
MaxGradeSeq == 6
\* days the clock advances in a behaviour of the review engine alone
MaxReviewDays == 2
\* focus events of the overlay window
MaxFocus == 2
\* subjects:rename and subjects:delete calls of a session
MaxSubjectCalls == 3
\* review:grade calls of a ReviewScreen session
MaxLoopGrades == 4

\* ------------------------------------------------------- program constants
UNDO_WINDOW_MS == 5000
intervalMs == 250
FOCUS_CHECK_MS == 100
ABORT_GRACE_MS == 100
\* granularity at which a user action can fall inside a timer's sleep
USER_STEP_MS == 150

\* absent values: no AbortController, no UndoToken, no timestamp, no error
NoController == 0
NoUndo == [id |-> 0, absolutePath |-> << >>, expiresAt |-> 0]
NoTime == 0 - 1

\* SRS scheduling constants
AGAIN_MINUTES == 10
GOOD_GRAD_DAYS == 1
EASY_GRAD_DAYS == 3
MS_PER_MINUTE == 60 * 1000
MS_PER_DAY == 24 * 60 * 60 * 1000
Ratings == {"again", "good", "easy"}

\* ease is held in hundredths: 2.3 is 230
EASE_START == 230
EASE_MIN == 130
EASE_MAX == 280

\* intervalDays is a decimal [num, exp] = num / 10^exp without trailing zeros
RECURSIVE Pow10(_)
Pow10(k) == IF k = 0 THEN 1 ELSE 10 * Pow10(k - 1)

RECURSIVE Norm(_)
Norm(q) ==
  IF q.exp > 0 /\ q.num % 10 = 0
  THEN Norm([num |-> q.num \div 10, exp |-> q.exp - 1]) ELSE q

Days(n) == [num |-> n, exp |-> 0]

\* a product kept in whole days
TimesWholeDays(q, n, e) == Days((q.num * n) \div Pow10(q.exp + e))

\* a product with the factor read one decimal place too low
TimesTenth(q, n, e) == Norm([num |-> q.num * n, exp |-> q.exp + e + 1])

\* q * (n / 10^e)
Times(q, n, e) == Norm([num |-> q.num * n, exp |-> q.exp + e])

\* Math.max(1, q)
AtLeastOne(q) == IF q.num < Pow10(q.exp) THEN Days(1) ELSE q

\* Math.round(q * MS_PER_DAY), rounding half up
DaysToMs(q) ==
  LET whole == q.num \div Pow10(q.exp)
      frac == q.num % Pow10(q.exp)
  IN whole * MS_PER_DAY
     + (IF q.exp <= 5 THEN frac * 864 * Pow10(5 - q.exp)
        ELSE (2 * frac * 864 + Pow10(q.exp - 5)) \div (2 * Pow10(q.exp - 5)))

\* a maximum that forgets its floor
MaxSecond(x, y) == y

Max(x, y) == IF x >= y THEN x ELSE y
Min(x, y) == IF x <= y THEN x ELSE y
NoError == ""

\* --------------------------------------------------------------- strings
\* A string is a tuple of one-character strings.
INBOX == <<"i", "n", "b", "o", "x">>
LowerAlnum == {"i", "n", "b", "o", "x", "m", "z", "2"}
Upper == {"M", "I"}
Whitespace == {" "}

toLowerCase(s) ==
  [k \in 1..Len(s) |-> IF s[k] = "M" THEN "m"
                       ELSE IF s[k] = "I" THEN "i" ELSE s[k]]

RECURSIVE trimStart(_)
trimStart(s) ==
  IF s # <<>> /\ Head(s) \in Whitespace THEN trimStart(Tail(s)) ELSE s

RECURSIVE trimEnd(_)
trimEnd(s) ==
  IF s # <<>> /\ s[Len(s)] \in Whitespace
  THEN trimEnd(SubSeq(s, 1, Len(s) - 1)) ELSE s

trim(s) == trimEnd(trimStart(s))

\* s.replace(/[^a-z0-9\-_]/g, '')
stripDisallowed(s) == SelectSeq(s, LAMBDA c : c \in LowerAlnum \cup {"-", "_"})

\* subject ids a renderer may send with capture:take
SubjectInputs == { INBOX, <<" ", "M", "!">>, <<"!">> }

\* subject names a renderer may send with subjects:create
SubjectNames == { <<"M">> }

\* subject names a renderer may send with subjects:rename
RenameNames == { <<"M">>, <<"z">>, INBOX }

Attempts == 1..MaxCaptures

Platforms == {"win32", "darwin", "linux"}

ErrCancelled == "Screenshot cancelled"
ErrTimedOut == "Screenshot timed out - please try again"
ErrNoClipboard == "No screenshot in clipboard"
ErrUnsupported == "Screenshot not supported on this platform"
ErrIO == "io error"
ErrDbNotInit == "Database not initialized"
ErrNoEntry == "ENOENT"
ErrDatabase == "database error"

VARIABLES
  platform,                \* process.platform
  appState,                \* "loaded", then "ready" after app 'ready'
  windowsOpen,             \* dashboardWindow / overlayWindow are non-null
  dbOpen,                  \* db # null in the store module
  subjects,                \* subjects table: id -> name
  cards,                   \* captures table: id -> row
  files,                   \* image files on disk: <<subjectDir, uuid>>
  clipboard,               \* 0 = no image, k > 0 = the k-th image copied
  snips,                   \* images placed on the clipboard so far
  now,                     \* Date.now(), ms
  lastUndo,                \* NoUndo or [id, absolutePath, expiresAt]
  captureInProgress,
  captureAbortController,  \* NoController or the controller of attempt a
  aborted,                 \* controllers whose abort() has been called
  started,                 \* triggerCapture calls so far
  pc,                      \* attempt -> position in triggerCapture
  subj,                    \* attempt -> subjectId argument, then safeSubjectId
  poll,                    \* attempt -> loop index i of waitForClipboardImage
  wake,                    \* attempt -> deadline of the pending setTimeout
  ret,                     \* attempt -> what triggerCapture returned
  err,                     \* attempt -> message of the error that ended it
  src,                     \* attempt -> clipboard image its bytes came from
  out,                     \* attempt -> messages sent to the window
  saves,                   \* history: the saved captures in order, [id, at]
  undoRet,                 \* the capture:undo calls: the n-th was for id and
                           \* returned ok after logging error; undone = the
                           \* ids for which a call returned ok:true
  gradeRet,                \* the review:grade calls: the n-th was for id
                           \* with rating and returned res; graded = the ids
                           \* a call has graded, agains = id -> again
                           \* ratings applied, since = id -> good and easy
                           \* ratings applied since the last again
  subjectRet,              \* the subjects:rename and subjects:delete calls
                           \* that report: the n-th was op for id and
                           \* returned res
  review,                  \* the ReviewScreen: open for subjectId and showing
                           \* card (0: none) since the time at, when start
                           \* cards were due; done = grades it has applied,
                           \* calls = review:grade calls it has seen return
  focus                    \* overlay 'focus' handler: wake = deadlines of
                           \* its pending timers, aborted = controllers
                           \* whose abort() a timer has called

vars == << platform, appState, windowsOpen, dbOpen, subjects, cards, files,
           clipboard, snips, now, lastUndo, captureInProgress,
           captureAbortController, aborted, started, pc, subj, poll, wake,
           ret, err, src, out, saves, undoRet, gradeRet, subjectRet,
           review, focus >>

env == << platform, appState, windowsOpen, dbOpen, focus, subjectRet, review >>
store == << subjects, cards, files >>
session == << lastUndo, captureInProgress, captureAbortController, aborted >>
attempt == << started, pc, subj, poll, wake, ret, err, src, out, saves >>

\* ------------------------------------------------------------- the store
subjectExists(id) == id \in DOMAIN subjects

\* a row with due_at left at the column default
FreshCardDueZero(id, subjectId, createdAt) ==
  [ id |-> id, subjectId |-> subjectId, imagePath |-> <<subjectId, id>>,
    createdAt |-> createdAt, state |-> "new", dueAt |-> 0,
    intervalDays |-> Days(0), ease |-> EASE_START, reps |-> 0, lapses |-> 0,
    lastReviewedAt |-> NoTime ]

\* the row insertCapture writes
FreshCard(id, subjectId, createdAt) ==
  [ id |-> id, subjectId |-> subjectId, imagePath |-> <<subjectId, id>>,
    createdAt |-> createdAt, state |-> "new", dueAt |-> createdAt,
    intervalDays |-> Days(0), ease |-> EASE_START, reps |-> 0, lapses |-> 0,
    lastReviewedAt |-> NoTime ]

\* insertCapture throws when the store is closed, when the row's subject_id
\* references no subject (FOREIGN KEY) or its id is taken, and when the
\* statement fails in the database (dbOk = FALSE)
insertCaptureThrows(id, subjectId, dbOk) ==
  \/ ~dbOpen
  \/ ~subjectExists(subjectId)
  \/ id \in DOMAIN cards
  \/ ~dbOk

insertCapture(id, subjectId, createdAt) ==
  (id :> FreshCard(id, subjectId, createdAt)) @@ cards

\* a delete that matches no row
deleteCaptureKeeps(id) == cards

deleteCapture(id) == [c \in DOMAIN cards \ {id} |-> cards[c]]

\* a count of the rows that were due before t
getDueCountBefore(subjectId, t) ==
  Cardinality({ c \in DOMAIN cards :
                  cards[c].subjectId = subjectId /\ cards[c].dueAt < t })

\* SELECT COUNT(*) ... WHERE subject_id = ? AND due_at <= ?
getDueCount(subjectId, t) ==
  Cardinality({ c \in DOMAIN cards :
                  cards[c].subjectId = subjectId /\ cards[c].dueAt <= t })

\* a query ordered by created_at alone
getNextDueByCreation(subjectId, t) ==
  LET due == { c \in DOMAIN cards :
                 cards[c].subjectId = subjectId /\ cards[c].dueAt <= t }
  IN { c \in due : \A d \in due : cards[d].createdAt >= cards[c].createdAt }

\* ... ORDER BY due_at ASC, created_at ASC LIMIT 1: the set of rows the query
\* may return (one of the first rows in that order), empty for null
getNextDueCapture(subjectId, t) ==
  LET due == { c \in DOMAIN cards :
                 cards[c].subjectId = subjectId /\ cards[c].dueAt <= t }
      Before(c, d) == \/ cards[c].dueAt < cards[d].dueAt
                      \/ /\ cards[c].dueAt = cards[d].dueAt
                         /\ cards[c].createdAt < cards[d].createdAt
  IN { c \in due : \A d \in due : ~Before(d, c) }

\* a grade whose again keeps the repetition count
gradeCardAgainKeepsReps(card, rating, t) ==
  LET fresh == card.state \in {"new", "learning"}
      grown == IF rating = "good"
               THEN AtLeastOne(Times(card.intervalDays, card.ease, 2))
               ELSE AtLeastOne(Times(Times(card.intervalDays, card.ease, 2),
                                     13, 1))
  IN CASE rating = "again" ->
            [card EXCEPT !.state = "learning",
                         !.dueAt = t + AGAIN_MINUTES * MS_PER_MINUTE,
                         !.ease = Max(EASE_MIN, card.ease - 20),
                         !.intervalDays = Days(0),
                         !.lapses = card.lapses + 1,
                         !.lastReviewedAt = t]
       [] rating = "good" ->
            [card EXCEPT !.state = "review",
                         !.intervalDays =
                            IF fresh THEN Days(GOOD_GRAD_DAYS) ELSE grown,
                         !.dueAt =
                            IF fresh THEN t + GOOD_GRAD_DAYS * MS_PER_DAY
                            ELSE t + DaysToMs(grown),
                         !.ease = Min(EASE_MAX, card.ease + (IF fresh THEN 5 ELSE 2)),
                         !.reps = card.reps + 1,
                         !.lastReviewedAt = t]
       [] rating = "easy" ->
            [card EXCEPT !.state = "review",
                         !.intervalDays =
                            IF fresh THEN Days(EASY_GRAD_DAYS) ELSE grown,
                         !.dueAt =
                            IF fresh THEN t + EASY_GRAD_DAYS * MS_PER_DAY
                            ELSE t + DaysToMs(grown),
                         !.ease = Min(EASE_MAX, card.ease + (IF fresh THEN 15 ELSE 10)),
                         !.reps = card.reps + 1,
                         !.lastReviewedAt = t]

\* a grade that graduates only new cards: a learning card is scheduled as
\* a review card
gradeCardNewOnly(card, rating, t) ==
  LET fresh == card.state = "new"
      grown == IF rating = "good"
               THEN AtLeastOne(Times(card.intervalDays, card.ease, 2))
               ELSE AtLeastOne(Times(Times(card.intervalDays, card.ease, 2),
                                     13, 1))
  IN CASE rating = "again" ->
            [card EXCEPT !.state = "learning",
                         !.dueAt = t + AGAIN_MINUTES * MS_PER_MINUTE,
                         !.ease = Max(EASE_MIN, card.ease - 20),
                         !.intervalDays = Days(0),
                         !.reps = 0,
                         !.lapses = card.lapses + 1,
                         !.lastReviewedAt = t]
       [] rating = "good" ->
            [card EXCEPT !.state = "review",
                         !.intervalDays =
                            IF fresh THEN Days(GOOD_GRAD_DAYS) ELSE grown,
                         !.dueAt =
                            IF fresh THEN t + GOOD_GRAD_DAYS * MS_PER_DAY
                            ELSE t + DaysToMs(grown),
                         !.ease = Min(EASE_MAX, card.ease + (IF fresh THEN 5 ELSE 2)),
                         !.reps = card.reps + 1,
                         !.lastReviewedAt = t]
       [] rating = "easy" ->
            [card EXCEPT !.state = "review",
                         !.intervalDays =
                            IF fresh THEN Days(EASY_GRAD_DAYS) ELSE grown,
                         !.dueAt =
                            IF fresh THEN t + EASY_GRAD_DAYS * MS_PER_DAY
                            ELSE t + DaysToMs(grown),
                         !.ease = Min(EASE_MAX, card.ease + (IF fresh THEN 15 ELSE 10)),
                         !.reps = card.reps + 1,
                         !.lastReviewedAt = t]

\* times at which review:dueCount and review:next are asked: at once, when a
\* relearning card is due, when a graduated card is due
ReviewTimes ==
  { now, now + AGAIN_MINUTES * MS_PER_MINUTE, now + EASY_GRAD_DAYS * MS_PER_DAY }

\* subjects they are asked for: the subjects of the store and one that is not
ReviewSubjects == DOMAIN subjects \cup { <<"z">> }

\* the row gradeCapture writes for a card
gradeCard(card, rating, t) ==
  LET fresh == card.state \in {"new", "learning"}
      grown == IF rating = "good"
               THEN AtLeastOne(Times(card.intervalDays, card.ease, 2))
               ELSE AtLeastOne(Times(Times(card.intervalDays, card.ease, 2),
                                     13, 1))
  IN CASE rating = "again" ->
            [card EXCEPT !.state = "learning",
                         !.dueAt = t + AGAIN_MINUTES * MS_PER_MINUTE,
                         !.ease = Max(EASE_MIN, card.ease - 20),
                         !.intervalDays = Days(0),
                         !.reps = 0,
                         !.lapses = card.lapses + 1,
                         !.lastReviewedAt = t]
       [] rating = "good" ->
            [card EXCEPT !.state = "review",
                         !.intervalDays =
                            IF fresh THEN Days(GOOD_GRAD_DAYS) ELSE grown,
                         !.dueAt =
                            IF fresh THEN t + GOOD_GRAD_DAYS * MS_PER_DAY
                            ELSE t + DaysToMs(grown),
                         !.ease = Min(EASE_MAX, card.ease + (IF fresh THEN 5 ELSE 2)),
                         !.reps = card.reps + 1,
                         !.lastReviewedAt = t]
       [] rating = "easy" ->
            [card EXCEPT !.state = "review",
                         !.intervalDays =
                            IF fresh THEN Days(EASY_GRAD_DAYS) ELSE grown,
                         !.dueAt =
                            IF fresh THEN t + EASY_GRAD_DAYS * MS_PER_DAY
                            ELSE t + DaysToMs(grown),
                         !.ease = Min(EASE_MAX, card.ease + (IF fresh THEN 15 ELSE 10)),
                         !.reps = card.reps + 1,
                         !.lastReviewedAt = t]

\* ------------------------------------------------------------ the session
\* sanitizeSubjectId throws exactly when it reaches subjectExists on a closed
\* store
sanitized(id) == stripDisallowed(trim(toLowerCase(id)))

sanitizeThrows(id) == sanitized(id) # <<>> /\ ~dbOpen

\* a cleaning that does not fall back to the inbox
sanitizeSubjectIdNoFallback(id) == sanitized(id)

\* sanitizeSubjectId of renderer.tsx
sanitizeSubjectId(id) ==
  IF sanitized(id) = <<>> \/ ~subjectExists(sanitized(id))
  THEN INBOX ELSE sanitized(id)

Toast(message) == [type |-> "toast", message |-> message]
CaptureSaved(id) ==
  [type |-> "capture:saved", id |-> id, expiresInMs |-> UNDO_WINDOW_MS]

\* the check without its deadline
undoValidNoExpiry(id) == ~(lastUndo = NoUndo \/ lastUndo.id # id)

\* the check without its id comparison
undoValidAnyId(id) == ~(lastUndo = NoUndo \/ now > lastUndo.expiresAt)

\* the validity check of handleUndoCapture
undoValid(id) ==
  ~(lastUndo = NoUndo \/ lastUndo.id # id \/ now > lastUndo.expiresAt)

\* fs.unlinkSync throws when the file does not exist
unlinkThrows(path) == path \notin files

\* deleteCapture throws when the store is closed or the statement fails
deleteCaptureThrows(dbOk) == ~dbOpen \/ ~dbOk

SUBJECT == <<"s", "u", "b", "j", "e", "c", "t">>

\* LOWER(name) = LOWER(?) over the subjects table
subjectNameExists(name) ==
  \E id \in DOMAIN subjects : toLowerCase(subjects[id]) = toLowerCase(name)

\* .replace(/[^a-z0-9]+/g, '-'): every run of other characters becomes one '-'
RECURSIVE dashRuns(_)
dashRuns(s) ==
  IF s = << >> THEN << >>
  ELSE IF Head(s) \in LowerAlnum THEN <<Head(s)>> \o dashRuns(Tail(s))
  ELSE LET rest == dashRuns(Tail(s)) IN
       IF Len(s) > 1 /\ s[2] \notin LowerAlnum THEN rest ELSE <<"-">> \o rest

\* .replace(/^-+|-+$/g, '')
RECURSIVE stripDashes(_)
stripDashes(s) ==
  IF s # << >> /\ Head(s) = "-" THEN stripDashes(Tail(s))
  ELSE IF s # << >> /\ s[Len(s)] = "-"
  THEN stripDashes(SubSeq(s, 1, Len(s) - 1))
  ELSE s

\* .replace(/-+/g, '-')
RECURSIVE collapseDashes(_)
collapseDashes(s) ==
  IF Len(s) < 2 THEN s
  ELSE IF s[1] = "-" /\ s[2] = "-" THEN collapseDashes(Tail(s))
  ELSE <<Head(s)>> \o collapseDashes(Tail(s))

Digit(n) == <<"0", "1", "2", "3", "4", "5", "6", "7", "8", "9">>[n + 1]

RECURSIVE firstFreeSuffix(_, _)
firstFreeSuffix(base, counter) ==
  IF counter < 9 /\ (base \o <<"-", Digit(counter)>>) \in DOMAIN subjects
  THEN firstFreeSuffix(base, counter + 1)
  ELSE base \o <<"-", Digit(counter)>>

generateSubjectId(name) ==
  LET slug == collapseDashes(stripDashes(dashRuns(trim(toLowerCase(name)))))
      base == IF slug = << >> THEN SUBJECT ELSE slug
  IN IF base \notin DOMAIN subjects THEN base ELSE firstFreeSuffix(base, 2)

Acquiring == {"launch", "poll", "spawn"}
Sleeping == {"grace", "poll"}

PendingWakes ==
  { wake[a] : a \in { b \in Attempts : pc[b] \in Sleeping } } \cup focus.wake

\* the overlay has not been focused yet
NoFocus == [n |-> 0, wake |-> {}, aborted |-> {}]

\* the ReviewScreen is not mounted
NoReview ==
  [ open |-> FALSE, subjectId |-> << >>, card |-> 0, start |-> 0, at |-> 0,
    done |-> 0, calls |-> 0 ]

\* no review:grade call yet
NoGrades ==
  [ n |-> 0, id |-> 0, rating |-> "", res |-> "", graded |-> {},
    agains |-> [a \in Attempts |-> 0], since |-> [a \in Attempts |-> 0] ]

Init ==
  /\ platform \in Platforms
  /\ appState = "loaded"
  /\ windowsOpen = FALSE
  /\ dbOpen = FALSE
  /\ subjects = << >>
  /\ cards = << >>
  /\ files = {}
  /\ clipboard = 0
  /\ snips = 0
  /\ now = 0
  /\ lastUndo = NoUndo
  /\ captureInProgress = FALSE
  /\ captureAbortController = NoController
  /\ aborted = {}
  /\ started = 0
  /\ pc = [a \in Attempts |-> "idle"]
  /\ subj = [a \in Attempts |-> << >>]
  /\ poll = [a \in Attempts |-> 0]
  /\ wake = [a \in Attempts |-> 0]
  /\ ret = [a \in Attempts |-> "pending"]
  /\ err = [a \in Attempts |-> NoError]
  /\ src = [a \in Attempts |-> 0]
  /\ out = [a \in Attempts |-> << >>]
  /\ saves = << >>
  /\ undoRet = [n |-> 0, id |-> 0, ok |-> FALSE, error |-> NoError,
                undone |-> {}]
  /\ gradeRet = NoGrades
  /\ focus = NoFocus
  /\ subjectRet = [n |-> 0, op |-> "", id |-> << >>, res |-> ""]
  /\ review = NoReview

\* ----------------------------------------------------- application events
\* app.on('ready'): initDatabase (with upsertInboxSubject), createWindows
AppReady ==
  /\ appState = "loaded"
  /\ appState' = "ready"
  /\ dbOpen' = TRUE
  /\ subjects' = IF INBOX \in DOMAIN subjects THEN subjects
                 ELSE (INBOX :> <<"I", "n", "b", "o", "x">>) @@ subjects
  /\ windowsOpen' = TRUE
  /\ UNCHANGED << platform, focus, subjectRet, review, cards, files, clipboard,
                  snips, now, undoRet, gradeRet >>
  /\ UNCHANGED << session, attempt >>

\* ------------------------------------------------------------ environment
\* the user (or the snipping tool) places a new image on the clipboard
UserCopiesImage ==
  /\ snips < MaxSnips
  /\ snips' = snips + 1
  /\ clipboard' = snips + 1
  /\ UNCHANGED << env, now, undoRet, gradeRet >>
  /\ UNCHANGED << store, session, attempt >>

\* Time passes.  A pending setTimeout fires at its deadline, so the clock
\* never passes one; it moves to the next deadline, to the end of the undo
\* window or just past it, or by a user-scale step inside a timer's sleep.
TickTargets ==
  PendingWakes
  \cup (IF lastUndo = NoUndo THEN {}
        ELSE {lastUndo.expiresAt, lastUndo.expiresAt + 1})
  \cup (IF PendingWakes = {} THEN {} ELSE {now + USER_STEP_MS})

Tick ==
  /\ \E t \in TickTargets :
       /\ t > now
       /\ \A w \in PendingWakes : t <= w
       /\ now' = t
  /\ UNCHANGED << env, clipboard, snips, undoRet, gradeRet >>
  /\ UNCHANGED << store, session, attempt >>

\* ------------------------------------------------------- triggerCapture
\* the attempt has returned: its locals are gone
Returned(a) ==
  /\ pc' = [pc EXCEPT ![a] = "done"]
  /\ subj' = [subj EXCEPT ![a] = << >>]
  /\ poll' = [poll EXCEPT ![a] = 0]
  /\ wake' = [wake EXCEPT ![a] = 0]

\* a catch block that also drops the undo state
CaughtClearsUndo(a, message) ==
  /\ captureInProgress' = FALSE
  /\ captureAbortController' = NoController
  /\ ret' = [ret EXCEPT ![a] = "null"]
  /\ err' = [err EXCEPT ![a] = message]
  /\ out' = [out EXCEPT ![a] =
               IF message # ErrCancelled THEN Append(@, Toast(message)) ELSE @]
  /\ Returned(a)
  /\ lastUndo' = NoUndo
  /\ UNCHANGED << files, cards, src, saves >>

\* a catch block that shows every error, the cancellation too
CaughtAlwaysToasts(a, message) ==
  /\ captureInProgress' = FALSE
  /\ captureAbortController' = NoController
  /\ ret' = [ret EXCEPT ![a] = "null"]
  /\ err' = [err EXCEPT ![a] = message]
  /\ out' = [out EXCEPT ![a] = Append(@, Toast(message))]
  /\ Returned(a)
  /\ UNCHANGED << files, cards, lastUndo, src, saves >>

\* the catch block of triggerCapture
Caught(a, message) ==
  /\ captureInProgress' = FALSE
  /\ captureAbortController' = NoController
  /\ ret' = [ret EXCEPT ![a] = "null"]
  /\ err' = [err EXCEPT ![a] = message]
  /\ out' = [out EXCEPT ![a] =
               IF message # ErrCancelled THEN Append(@, Toast(message)) ELSE @]
  /\ Returned(a)
  /\ UNCHANGED << files, cards, lastUndo, src, saves >>

\* a success path that keeps an undo window that is still open
SavedKeepsLiveToken(a, img, writeOk, dbOk) ==
  IF ~writeOk
  THEN Caught(a, ErrIO)
  ELSE
    /\ files' = files \cup { <<subj[a], a>> }
    /\ cards' = IF insertCaptureThrows(a, subj[a], dbOk) THEN cards
                ELSE insertCapture(a, subj[a], now)
    /\ lastUndo' = IF lastUndo # NoUndo /\ now <= lastUndo.expiresAt
                   THEN lastUndo
                   ELSE [ id |-> a, absolutePath |-> <<subj[a], a>>,
                          expiresAt |-> now + UNDO_WINDOW_MS ]
    /\ out' = [out EXCEPT ![a] = Append(@, CaptureSaved(a))]
    /\ captureInProgress' = FALSE
    /\ captureAbortController' = NoController
    /\ ret' = [ret EXCEPT ![a] = "card"]
    /\ src' = [src EXCEPT ![a] = img]
    /\ saves' = Append(saves, [id |-> a, at |-> now])
    /\ Returned(a)
    /\ UNCHANGED err

\* takeScreenshot from the bytes on (uuid, file, row), then the success path
\* of triggerCapture; the uuid of attempt a is a
Saved(a, img, writeOk, dbOk) ==
  IF ~writeOk
  THEN Caught(a, ErrIO)
  ELSE
    /\ files' = files \cup { <<subj[a], a>> }
    /\ cards' = IF insertCaptureThrows(a, subj[a], dbOk) THEN cards
                ELSE insertCapture(a, subj[a], now)
    /\ lastUndo' = [ id |-> a, absolutePath |-> <<subj[a], a>>,
                     expiresAt |-> now + UNDO_WINDOW_MS ]
    /\ out' = [out EXCEPT ![a] = Append(@, CaptureSaved(a))]
    /\ captureInProgress' = FALSE
    /\ captureAbortController' = NoController
    /\ ret' = [ret EXCEPT ![a] = "card"]
    /\ src' = [src EXCEPT ![a] = img]
    /\ saves' = Append(saves, [id |-> a, at |-> now])
    /\ Returned(a)
    /\ UNCHANGED err

\* triggerCapture from the new AbortController up to the first await of
\* takeScreenshot
Begin(a, sid) ==
  IF sanitizeThrows(sid)
  THEN \* subjectExists throws outside the try block
       /\ captureAbortController' = a
       /\ captureInProgress' = TRUE
       /\ ret' = [ret EXCEPT ![a] = "exception"]
       /\ err' = [err EXCEPT ![a] = ErrDbNotInit]
       /\ Returned(a)
       /\ UNCHANGED << clipboard, files, cards, lastUndo, src, out, saves >>
  ELSE
       /\ clipboard' = 0
       /\ IF platform \in {"win32", "darwin"}
          THEN /\ captureAbortController' = a
               /\ captureInProgress' = TRUE
               /\ pc' = [pc EXCEPT ![a] =
                           IF platform = "win32" THEN "launch" ELSE "spawn"]
               /\ subj' = [subj EXCEPT ![a] = sanitizeSubjectId(sid)]
               /\ poll' = [poll EXCEPT ![a] = 0]
               /\ wake' = [wake EXCEPT ![a] = 0]
               /\ UNCHANGED << files, cards, lastUndo, src, out, ret, err,
                               saves >>
          ELSE Caught(a, ErrUnsupported)

\* ipcMain.handle('capture:take'): triggerCapture up to its first await
TriggerCapture(sid) ==
  /\ started < MaxCaptures
  /\ LET a == started + 1 IN
     /\ started' = a
     /\ IF ~windowsOpen
        THEN \* no active window: return null
             /\ ret' = [ret EXCEPT ![a] = "null"]
             /\ Returned(a)
             /\ UNCHANGED << session, clipboard, files, cards, err, src, out,
                             saves >>
        ELSE IF captureInProgress /\ captureAbortController # NoController
        THEN \* abort the previous capture, then sleep 100 ms
             /\ aborted' = aborted \cup {captureAbortController}
             /\ pc' = [pc EXCEPT ![a] = "grace"]
             /\ wake' = [wake EXCEPT ![a] = now + ABORT_GRACE_MS]
             /\ subj' = [subj EXCEPT ![a] = sid]
             /\ UNCHANGED << lastUndo, captureInProgress,
                             captureAbortController, clipboard, files, cards,
                             poll, ret, err, src, out, saves >>
        ELSE /\ Begin(a, sid)
             /\ UNCHANGED aborted
  /\ UNCHANGED << env, subjects, snips, now, undoRet, gradeRet >>

\* the 100 ms delay after aborting the previous capture has elapsed
GraceElapsed(a) ==
  /\ pc[a] = "grace"
  /\ now >= wake[a]
  /\ Begin(a, subj[a])
  /\ UNCHANGED << env, subjects, snips, now, aborted, started, undoRet, gradeRet >>

\* waitForClipboardImage at the top of iteration i: the abort check, then
\* the sleep
\* a loop without its iteration limit
LoopTopNoLimit(a, i) ==
  IF a \in aborted
  THEN Caught(a, ErrCancelled)
  ELSE /\ pc' = [pc EXCEPT ![a] = "poll"]
       /\ poll' = [poll EXCEPT ![a] = i]
       /\ wake' = [wake EXCEPT ![a] = now + intervalMs]
       /\ UNCHANGED << files, cards, lastUndo, captureInProgress,
                       captureAbortController, subj, ret, err, src, out,
                       saves >>

LoopTop(a, i) ==
  IF i >= maxAttempts
  THEN Caught(a, ErrTimedOut)
  ELSE IF a \in aborted
  THEN Caught(a, ErrCancelled)
  ELSE /\ pc' = [pc EXCEPT ![a] = "poll"]
       /\ poll' = [poll EXCEPT ![a] = i]
       /\ wake' = [wake EXCEPT ![a] = now + intervalMs]
       /\ UNCHANGED << files, cards, lastUndo, captureInProgress,
                       captureAbortController, subj, ret, err, src, out,
                       saves >>

\* win32: shell.openExternal has settled; launched = FALSE when both the
\* call and its fallback were rejected
LaunchSettled(a, launched) ==
  /\ pc[a] = "launch"
  /\ IF launched THEN LoopTop(a, 0) ELSE Caught(a, ErrIO)
  /\ UNCHANGED << env, subjects, clipboard, snips, now, aborted, started,
                  undoRet, gradeRet >>

\* win32: the poll sleep is over; read the clipboard, then go round the loop
PollTick(a, writeOk, dbOk) ==
  /\ pc[a] = "poll"
  /\ now >= wake[a]
  /\ IF clipboard # 0
     THEN Saved(a, clipboard, writeOk, dbOk)
     ELSE LoopTop(a, poll[a] + 1)
  /\ UNCHANGED << env, subjects, clipboard, snips, now, aborted, started,
                  undoRet, gradeRet >>

\* darwin: the screencapture child has closed ("error": it could not be
\* spawned); with exit code 0 it may have put a new image on the clipboard
ChildClosed(a, code, copied, writeOk, dbOk) ==
  /\ pc[a] = "spawn"
  /\ copied => (code = "0" /\ snips < MaxSnips)
  /\ snips' = IF copied THEN snips + 1 ELSE snips
  /\ clipboard' = IF copied THEN snips + 1 ELSE clipboard
  /\ IF code = "error" THEN Caught(a, ErrIO)
     ELSE IF code # "0" THEN Caught(a, ErrCancelled)
     ELSE IF clipboard' = 0 THEN Caught(a, ErrNoClipboard)
     ELSE Saved(a, clipboard', writeOk, dbOk)
  /\ UNCHANGED << env, subjects, now, aborted, started, undoRet, gradeRet >>

\* ------------------------------------------------------ handleUndoCapture
\* ipcMain.handle('capture:undo')
UndoReturns(id, ok, error) ==
  undoRet' = [ n |-> undoRet.n + 1, id |-> id, ok |-> ok, error |-> error,
               undone |-> IF ok THEN undoRet.undone \cup {id}
                          ELSE undoRet.undone ]

HandleUndoCapture(id, dbOk) ==
  /\ undoRet.n < MaxUndoCalls
  /\ IF ~undoValid(id)
     THEN /\ UndoReturns(id, FALSE, NoError)
          /\ UNCHANGED << files, cards, lastUndo >>
     ELSE IF unlinkThrows(lastUndo.absolutePath)
     THEN /\ UndoReturns(id, FALSE, ErrNoEntry)
          /\ UNCHANGED << files, cards, lastUndo >>
     ELSE /\ files' = files \ {lastUndo.absolutePath}
          /\ IF deleteCaptureThrows(dbOk)
             THEN /\ UndoReturns(id, FALSE, ErrDatabase)
                  /\ UNCHANGED << cards, lastUndo >>
             ELSE /\ cards' = deleteCapture(id)
                  /\ lastUndo' = NoUndo
                  /\ UndoReturns(id, TRUE, NoError)
  /\ UNCHANGED << env, subjects, clipboard, snips, now, captureInProgress,
                  captureAbortController, aborted, gradeRet >>
  /\ UNCHANGED attempt

\* ---------------------------------------------------------------- subjects
\* ipcMain.handle('subjects:create'); on a closed store the handler throws
SubjectsCreate(name) ==
  /\ dbOpen
  /\ ~subjectNameExists(name)
  /\ subjects' = (generateSubjectId(name) :> name) @@ subjects
  /\ UNCHANGED << env, cards, files, clipboard, snips, now, undoRet, gradeRet >>
  /\ UNCHANGED << session, attempt >>

\* ipcMain.handle('subjects:delete'): the images folder of the subject is
\* removed first, then its captures and the subject row
SubjectsDelete(id) ==
  /\ id # INBOX
  /\ files' = { f \in files : f[1] # id }
  /\ IF ~dbOpen
     THEN UNCHANGED << subjects, cards >>
     ELSE /\ cards' = [c \in { d \in DOMAIN cards : cards[d].subjectId # id }
                         |-> cards[c]]
          /\ subjects' = [x \in DOMAIN subjects \ {id} |-> subjects[x]]
  /\ UNCHANGED << env, clipboard, snips, now, undoRet, gradeRet >>
  /\ UNCHANGED << session, attempt >>

\* ------------------------------------------------------------------ review
\* ipcMain.handle('review:grade'): gradeCapture(id, rating, Date.now()); the
\* product of the interval stays within the integers of the model
gradeFits(card, rating) ==
  \/ rating = "again"
  \/ card.state # "review"
  \/ /\ card.intervalDays.num < 5 * Pow10(card.intervalDays.exp)
     /\ card.intervalDays.exp <= 3

\* what a review:grade call returned, and the ratings applied so far
GradeReturns(id, rating, res) ==
  gradeRet' =
    [ n |-> gradeRet.n + 1, id |-> id, rating |-> rating, res |-> res,
      graded |-> IF res = "ok" THEN gradeRet.graded \cup {id}
                 ELSE gradeRet.graded,
      agains |-> IF res = "ok" /\ rating = "again"
                 THEN [gradeRet.agains EXCEPT ![id] = @ + 1]
                 ELSE gradeRet.agains,
      since |-> IF res # "ok" THEN gradeRet.since
                ELSE IF rating = "again"
                THEN [gradeRet.since EXCEPT ![id] = 0]
                ELSE [gradeRet.since EXCEPT ![id] = @ + 1] ]

\* an UPDATE without its WHERE clause
GradeCallAllRows(id, rating) ==
  /\ \A c \in DOMAIN cards : gradeFits(cards[c], rating)
  /\ IF ~dbOpen
     THEN /\ GradeReturns(id, rating, "exception")
          /\ UNCHANGED cards
     ELSE IF id \notin DOMAIN cards
     THEN /\ GradeReturns(id, rating, "Card not found")
          /\ UNCHANGED cards
     ELSE /\ GradeReturns(id, rating, "ok")
          /\ cards' = [c \in DOMAIN cards |-> gradeCard(cards[c], rating, now)]
  /\ UNCHANGED << env, subjects, files, clipboard, snips, now, undoRet >>
  /\ UNCHANGED << session, attempt >>

\* a grade that writes the row of a card that is not there
GradeCallRecreates(id, rating) ==
  /\ id \in DOMAIN cards => gradeFits(cards[id], rating)
  /\ IF ~dbOpen
     THEN /\ GradeReturns(id, rating, "exception")
          /\ UNCHANGED cards
     ELSE IF id \notin DOMAIN cards
     THEN /\ GradeReturns(id, rating, "ok")
          /\ cards' = (id :> gradeCard(FreshCard(id, INBOX, now), rating, now))
                       @@ cards
     ELSE /\ GradeReturns(id, rating, "ok")
          /\ cards' = [cards EXCEPT ![id] = gradeCard(cards[id], rating, now)]
  /\ UNCHANGED << env, subjects, files, clipboard, snips, now, undoRet >>
  /\ UNCHANGED << session, attempt >>

GradeCall(id, rating) ==
  /\ id \in DOMAIN cards => gradeFits(cards[id], rating)
  /\ IF ~dbOpen
     THEN /\ GradeReturns(id, rating, "exception")
          /\ UNCHANGED cards
     ELSE IF id \notin DOMAIN cards
     THEN /\ GradeReturns(id, rating, "Card not found")
          /\ UNCHANGED cards
     ELSE /\ GradeReturns(id, rating, "ok")
          /\ cards' = [cards EXCEPT ![id] = gradeCard(cards[id], rating, now)]
  /\ UNCHANGED << env, subjects, files, clipboard, snips, now, undoRet >>
  /\ UNCHANGED << session, attempt >>

ReviewGrade(id, rating) ==
  /\ gradeRet.n < MaxGrades
  /\ GradeCall(id, rating)

Next ==
  \/ AppReady
  \/ UserCopiesImage
  \/ Tick
  \/ \E sid \in SubjectInputs : TriggerCapture(sid)
  \/ \E a \in Attempts : GraceElapsed(a)
  \/ \E a \in Attempts, launched \in BOOLEAN : LaunchSettled(a, launched)
  \/ \E a \in Attempts, writeOk, dbOk \in BOOLEAN : PollTick(a, writeOk, dbOk)
  \/ \E a \in Attempts, code \in {"0", "1", "error"},
        copied, writeOk, dbOk \in BOOLEAN :
          ChildClosed(a, code, copied, writeOk, dbOk)
  \/ \E id \in Attempts, dbOk \in BOOLEAN : HandleUndoCapture(id, dbOk)
  \/ \E name \in SubjectNames : SubjectsCreate(name)
  \/ \E id \in DOMAIN subjects : SubjectsDelete(id)

Spec == Init /\ [][Next]_vars

\* The session with the review engine, on macOS: the store sees captures,
\* undos, subject deletions and grades; how the bytes of a capture were
\* acquired does not reach it.
InitReview == Init /\ platform = "darwin"

NextReview ==
  \/ AppReady
  \/ UserCopiesImage
  \/ Tick
  \/ \E sid \in SubjectInputs : TriggerCapture(sid)
  \/ \E a \in Attempts : GraceElapsed(a)
  \/ \E a \in Attempts, code \in {"0", "1", "error"},
        copied, writeOk, dbOk \in BOOLEAN :
          ChildClosed(a, code, copied, writeOk, dbOk)
  \/ \E id \in Attempts, dbOk \in BOOLEAN : HandleUndoCapture(id, dbOk)
  \/ \E name \in SubjectNames : SubjectsCreate(name)
  \/ \E id \in DOMAIN subjects : SubjectsDelete(id)
  \/ \E id \in Attempts, rating \in Ratings : ReviewGrade(id, rating)

SpecReview == InitReview /\ [][NextReview]_vars

\* ------------------------------------------------------- the poll loop
\* Captures on Windows, where the image is awaited by polling the clipboard.
\* The event loop runs every timer that is due and time does not stand
\* still: the clock and the timers of each attempt are weakly fair.
InitPoll == Init /\ platform = "win32"

NextPoll ==
  \/ AppReady
  \/ UserCopiesImage
  \/ Tick
  \/ \E sid \in SubjectInputs : TriggerCapture(sid)
  \/ \E a \in Attempts : GraceElapsed(a)
  \/ \E a \in Attempts, launched \in BOOLEAN : LaunchSettled(a, launched)
  \/ \E a \in Attempts, writeOk, dbOk \in BOOLEAN : PollTick(a, writeOk, dbOk)

SpecPoll ==
  /\ InitPoll
  /\ [][NextPoll]_vars
  /\ WF_vars(Tick)
  /\ \A a \in Attempts :
       /\ WF_vars(GraceElapsed(a))
       /\ WF_vars(\E writeOk, dbOk \in BOOLEAN : PollTick(a, writeOk, dbOk))

\* ------------------------------------------------- the overlay's focus
\* overlayWindow.on('focus'): while a capture is marked in progress, the
\* clipboard is looked at 100 ms later
OverlayFocus ==
  /\ windowsOpen
  /\ focus.n < MaxFocus
  /\ focus' = [ focus EXCEPT
                  !.n = @ + 1,
                  !.wake = IF captureInProgress
                              /\ captureAbortController # NoController
                           THEN @ \cup {now + FOCUS_CHECK_MS} ELSE @ ]
  /\ UNCHANGED << platform, appState, windowsOpen, dbOpen, subjectRet, review,
                  clipboard, snips, now, undoRet, gradeRet >>
  /\ UNCHANGED << store, session, attempt >>

\* the timer of the focus handler: on an empty clipboard the controller
\* stored at that time, if any, is aborted
FocusTimerFires ==
  /\ \E t \in focus.wake :
       /\ now >= t
       /\ LET hit == IF clipboard = 0 /\ captureAbortController # NoController
                     THEN {captureAbortController} ELSE {}
          IN /\ focus' = [ focus EXCEPT !.wake = @ \ {t},
                                        !.aborted = @ \cup hit ]
             /\ aborted' = aborted \cup hit
  /\ UNCHANGED << platform, appState, windowsOpen, dbOpen, subjectRet, review,
                  clipboard, snips, now, undoRet, gradeRet >>
  /\ UNCHANGED << store, lastUndo, captureInProgress, captureAbortController,
                  attempt >>

\* Captures while the overlay gains focus: the capture core of every
\* platform with the focus handler and its timers.
NextFocus ==
  \/ AppReady
  \/ UserCopiesImage
  \/ Tick
  \/ \E sid \in SubjectInputs : TriggerCapture(sid)
  \/ \E a \in Attempts : GraceElapsed(a)
  \/ \E a \in Attempts, launched \in BOOLEAN : LaunchSettled(a, launched)
  \/ \E a \in Attempts, writeOk, dbOk \in BOOLEAN : PollTick(a, writeOk, dbOk)
  \/ \E a \in Attempts, code \in {"0", "1", "error"},
        copied, writeOk, dbOk \in BOOLEAN :
          ChildClosed(a, code, copied, writeOk, dbOk)
  \/ OverlayFocus
  \/ FocusTimerFires

SpecFocus == Init /\ [][NextFocus]_vars

\* ------------------------------------------------------ the review engine
\* The review engine alone: one capture has been saved on macOS, and from
\* then on the card is graded again and again while the clock advances.

\* the first instant of such a behaviour: one hour into the session
SESSION_HOUR_MS == 60 * MS_PER_MINUTE

\* The card late in its life.  Graded easy five times in a row its ease went
\* 2.45, 2.55, 2.65, 2.75, 2.8; an again took it to learning with ease 2.6,
\* lapses 1 and reps 0; an easy, at the end of the first hour, graduated it
\* again: review, 3 days, ease 2.75, reps 1.
SeasonedCard ==
  [ FreshCard(1, INBOX, 0) EXCEPT
      !.state = "review",
      !.dueAt = SESSION_HOUR_MS + EASY_GRAD_DAYS * MS_PER_DAY,
      !.intervalDays = Days(EASY_GRAD_DAYS),
      !.ease = 275,
      !.reps = 1,
      !.lapses = 1,
      !.lastReviewedAt = SESSION_HOUR_MS ]

InitGrade ==
  /\ platform = "darwin"
  /\ appState = "ready"
  /\ windowsOpen = TRUE
  /\ dbOpen = TRUE
  /\ subjects = (INBOX :> <<"I", "n", "b", "o", "x">>)
  /\ cards \in { (1 :> FreshCard(1, INBOX, 0)), (1 :> SeasonedCard) }
  /\ files = { <<INBOX, 1>> }
  /\ clipboard = 1
  /\ snips = 1
  /\ now = IF cards[1].lastReviewedAt = NoTime THEN 0 ELSE SESSION_HOUR_MS
  /\ lastUndo = [ id |-> 1, absolutePath |-> <<INBOX, 1>>,
                  expiresAt |-> UNDO_WINDOW_MS ]
  /\ captureInProgress = FALSE
  /\ captureAbortController = NoController
  /\ aborted = {}
  /\ started = 1
  /\ pc = [a \in Attempts |-> IF a = 1 THEN "done" ELSE "idle"]
  /\ subj = [a \in Attempts |-> << >>]
  /\ poll = [a \in Attempts |-> 0]
  /\ wake = [a \in Attempts |-> 0]
  /\ ret = [a \in Attempts |-> IF a = 1 THEN "card" ELSE "pending"]
  /\ err = [a \in Attempts |-> NoError]
  /\ src = [a \in Attempts |-> IF a = 1 THEN 1 ELSE 0]
  /\ out = [a \in Attempts |-> IF a = 1 THEN << CaptureSaved(1) >> ELSE << >>]
  /\ saves = << [id |-> 1, at |-> 0] >>
  /\ undoRet = [n |-> 0, id |-> 0, ok |-> FALSE, error |-> NoError,
                undone |-> {}]
  /\ gradeRet = IF cards[1].lastReviewedAt = NoTime THEN NoGrades
                ELSE [ NoGrades EXCEPT !.graded = {1}, !.agains[1] = 1,
                                       !.since[1] = 1 ]
  /\ focus = NoFocus
  /\ subjectRet = [n |-> 0, op |-> "", id |-> << >>, res |-> ""]
  /\ review = NoReview

\* Date.now() at the next review:grade is the same, later by ten minutes or
\* later by a day: the clock moves once between two grades of the card
ClockAdvances(d) ==
  /\ 1 \in DOMAIN cards
  /\ now = IF cards[1].lastReviewedAt = NoTime THEN cards[1].createdAt
           ELSE cards[1].lastReviewedAt
  /\ now + d <= SESSION_HOUR_MS + MaxReviewDays * MS_PER_DAY
  /\ now' = now + d
  /\ UNCHANGED << env, clipboard, snips, undoRet, gradeRet >>
  /\ UNCHANGED << store, session, attempt >>

\* app.on('will-quit'): closeDatabase; the windows are closed by then
WillQuit ==
  /\ appState = "ready"
  /\ appState' = "quit"
  /\ windowsOpen' = FALSE
  /\ dbOpen' = FALSE
  /\ UNCHANGED << platform, focus, subjectRet, review, clipboard, snips, now,
                  undoRet, gradeRet >>
  /\ UNCHANGED << store, session, attempt >>

ReviewGradeOften(id, rating) ==
  /\ gradeRet.n < MaxGradeSeq
  /\ GradeCall(id, rating)

NextGrade ==
  \/ \E d \in {AGAIN_MINUTES * MS_PER_MINUTE, MS_PER_DAY} : ClockAdvances(d)
  \/ \E id \in Attempts, rating \in Ratings : ReviewGradeOften(id, rating)
  \/ WillQuit

SpecGrade == InitGrade /\ [][NextGrade]_vars

\* ------------------------------------------------------ the review loop
\* what review:next returns to the screen: a first due card, 0 for null
NextCards(subjectId) ==
  IF getNextDueCapture(subjectId, now) = {} THEN {0}
  ELSE getNextDueCapture(subjectId, now)

\* ReviewScreen mounts for a subject: fetchNextCard asks review:next and,
\* when there is a card, review:dueCount; on a closed store the call fails
\* and no card is shown
ReviewOpens(subjectId) ==
  /\ windowsOpen
  /\ ~review.open
  /\ \E c \in IF dbOpen THEN NextCards(subjectId) ELSE {0} :
       review' = [ open |-> TRUE, subjectId |-> subjectId, card |-> c,
                   start |-> IF c # 0 THEN getDueCount(subjectId, now) ELSE 0,
                   at |-> now, done |-> 0, calls |-> gradeRet.n ]
  /\ UNCHANGED << platform, appState, windowsOpen, dbOpen, focus, subjectRet,
                  clipboard, snips, now, undoRet, gradeRet >>
  /\ UNCHANGED << store, session, attempt >>

\* onBack: the screen is unmounted
ReviewCloses ==
  /\ review.open
  /\ review.calls = gradeRet.n
  /\ review' = NoReview
  /\ UNCHANGED << platform, appState, windowsOpen, dbOpen, focus, subjectRet,
                  clipboard, snips, now, undoRet, gradeRet >>
  /\ UNCHANGED << store, session, attempt >>

\* handleGrade up to its await: review:grade for the card on the screen
LoopGrade(rating) ==
  /\ windowsOpen
  /\ review.open
  /\ review.card # 0
  /\ review.calls = gradeRet.n
  /\ gradeRet.n < MaxLoopGrades
  /\ GradeCall(review.card, rating)

\* handleGrade after review:grade has returned: on ok fetchNextCard shows
\* the next due card or none; otherwise a toast and the card stays
LoopFetch ==
  /\ windowsOpen
  /\ review.open
  /\ review.calls # gradeRet.n
  /\ IF gradeRet.res = "ok" /\ dbOpen
     THEN \E c \in NextCards(review.subjectId) :
            review' = [ review EXCEPT !.card = c, !.done = @ + 1,
                                      !.calls = gradeRet.n ]
     ELSE review' = [ review EXCEPT !.calls = gradeRet.n ]
  /\ UNCHANGED << platform, appState, windowsOpen, dbOpen, focus, subjectRet,
                  clipboard, snips, now, undoRet, gradeRet >>
  /\ UNCHANGED << store, session, attempt >>

\* Date.now() moves on by ten minutes or by a day, once from the start of
\* the session and once after each grade
LoopClock(d) ==
  /\ \/ now = SESSION_HOUR_MS
     \/ \E c \in DOMAIN cards : cards[c].lastReviewedAt = now
  /\ now + d <= SESSION_HOUR_MS + MaxReviewDays * MS_PER_DAY
  /\ now' = now + d
  /\ UNCHANGED << env, clipboard, snips, undoRet, gradeRet >>
  /\ UNCHANGED << store, session, attempt >>

\* subjects the screen is opened for: the two of the store and one that is
\* not there
ScreenSubjects == { INBOX, <<"m">>, <<"z">> }

\* A session in its first hour on macOS: up to MaxCaptures captures have
\* been saved, under inbox and under the subject m, and the first may have
\* gone through reviews already.
InitLoop ==
  /\ platform = "darwin"
  /\ appState = "ready"
  /\ windowsOpen = TRUE
  /\ dbOpen = TRUE
  /\ subjects = (INBOX :> <<"I", "n", "b", "o", "x">>) @@ (<<"m">> :> <<"M">>)
  /\ \E k \in Attempts, s \in [Attempts -> {INBOX, <<"m">>}],
        first \in { FreshCard(1, INBOX, 0), SeasonedCard } :
       /\ cards = [ a \in 1..k |->
                      IF a = 1 THEN first
                      ELSE FreshCard(a, s[a], (a - 1) * USER_STEP_MS) ]
       /\ s[1] = INBOX
       /\ \A a \in Attempts : a > k => s[a] = INBOX
       /\ files = { << s[a], a >> : a \in 1..k }
       /\ clipboard = k
       /\ snips = k
       /\ lastUndo = [ id |-> k, absolutePath |-> << s[k], k >>,
                       expiresAt |-> (k - 1) * USER_STEP_MS + UNDO_WINDOW_MS ]
       /\ started = k
       /\ pc = [a \in Attempts |-> IF a <= k THEN "done" ELSE "idle"]
       /\ ret = [a \in Attempts |-> IF a <= k THEN "card" ELSE "pending"]
       /\ src = [a \in Attempts |-> IF a <= k THEN a ELSE 0]
       /\ out = [a \in Attempts |->
                   IF a <= k THEN << CaptureSaved(a) >> ELSE << >>]
       /\ saves = [a \in 1..k |-> [id |-> a, at |-> (a - 1) * USER_STEP_MS]]
  /\ now = SESSION_HOUR_MS
  /\ captureInProgress = FALSE
  /\ captureAbortController = NoController
  /\ aborted = {}
  /\ subj = [a \in Attempts |-> << >>]
  /\ poll = [a \in Attempts |-> 0]
  /\ wake = [a \in Attempts |-> 0]
  /\ err = [a \in Attempts |-> NoError]
  /\ undoRet = [n |-> 0, id |-> 0, ok |-> FALSE, error |-> NoError,
                undone |-> {}]
  /\ gradeRet = IF cards[1].lastReviewedAt = NoTime THEN NoGrades
                ELSE [ NoGrades EXCEPT !.graded = {1}, !.agains[1] = 1,
                                       !.since[1] = 1 ]
  /\ focus = NoFocus
  /\ subjectRet = [n |-> 0, op |-> "", id |-> << >>, res |-> ""]
  /\ review = NoReview

NextLoop ==
  \/ \E subjectId \in ScreenSubjects : ReviewOpens(subjectId)
  \/ ReviewCloses
  \/ \E rating \in Ratings : LoopGrade(rating)
  \/ LoopFetch
  \/ \E d \in {AGAIN_MINUTES * MS_PER_MINUTE, MS_PER_DAY} : LoopClock(d)

SpecLoop == InitLoop /\ [][NextLoop]_vars

\* ------------------------------------------------- the subjects table
\* a rename that does not protect the inbox
renameSubjectAnyId(id, name) ==
  IF id \notin DOMAIN subjects THEN subjects
  ELSE [subjects EXCEPT ![id] = name]

\* renameSubject: the table after the UPDATE, which is not run for 'inbox'
\* and matches no row for an unknown id
renameSubject(id, name) ==
  IF id = INBOX \/ id \notin DOMAIN subjects THEN subjects
  ELSE [subjects EXCEPT ![id] = name]

SubjectReturns(op, id, res) ==
  subjectRet' = [n |-> subjectRet.n + 1, op |-> op, id |-> id, res |-> res]

\* ipcMain.handle('subjects:rename'): another subject with the name in any
\* case is an error; else renameSubject, which returns the row or null
SubjectsRename(id, name) ==
  /\ dbOpen
  /\ subjectRet.n < MaxSubjectCalls
  /\ IF \E s \in DOMAIN subjects :
          s # id /\ toLowerCase(subjects[s]) = toLowerCase(name)
     THEN /\ SubjectReturns("rename", id, "error")
          /\ UNCHANGED subjects
     ELSE /\ subjects' = renameSubject(id, name)
          /\ SubjectReturns("rename", id,
               IF id = INBOX \/ id \notin DOMAIN subjects THEN "null"
               ELSE "row")
  /\ UNCHANGED << platform, appState, windowsOpen, dbOpen, focus, review, cards,
                  files, clipboard, snips, now, undoRet, gradeRet >>
  /\ UNCHANGED << session, attempt >>

\* ipcMain.handle('subjects:delete') with what it returns: 'inbox' is
\* refused before anything is touched; a closed store makes deleteSubject
\* throw after the folder is gone
SubjectsDeleteReturns(id) ==
  /\ subjectRet.n < MaxSubjectCalls
  /\ IF id = INBOX
     THEN /\ SubjectReturns("delete", id, "refused")
          /\ UNCHANGED << subjects, cards, files >>
     ELSE /\ files' = { f \in files : f[1] # id }
          /\ IF ~dbOpen
             THEN /\ SubjectReturns("delete", id, "failed")
                  /\ UNCHANGED << subjects, cards >>
             ELSE /\ SubjectReturns("delete", id,
                       IF id \in DOMAIN subjects THEN "ok" ELSE "not found")
                  /\ cards' = [c \in { d \in DOMAIN cards :
                                          cards[d].subjectId # id }
                                 |-> cards[c]]
                  /\ subjects' = [x \in DOMAIN subjects \ {id} |-> subjects[x]]
  /\ UNCHANGED << platform, appState, windowsOpen, dbOpen, focus, review,
                  clipboard, snips, now, undoRet, gradeRet >>
  /\ UNCHANGED << session, attempt >>

\* ids a renderer may send with subjects:rename and subjects:delete
SubjectIds == { INBOX, <<"m">>, <<"m", "-", "2">>, <<"z">> }

\* The subjects of a session: created, renamed and deleted in any order
\* while captures are stored under them on macOS.
InitSubjects == Init /\ platform = "darwin"

NextSubjects ==
  \/ AppReady
  \/ Tick
  \/ \E sid \in SubjectInputs : TriggerCapture(sid)
  \/ \E a \in Attempts : GraceElapsed(a)
  \/ \E a \in Attempts, code \in {"0", "1", "error"},
        copied, writeOk, dbOk \in BOOLEAN :
          ChildClosed(a, code, copied, writeOk, dbOk)
  \/ \E name \in SubjectNames : SubjectsCreate(name)
  \/ \E id \in SubjectIds, name \in RenameNames : SubjectsRename(id, name)
  \/ \E id \in SubjectIds : SubjectsDeleteReturns(id)
  \/ WillQuit

SpecSubjects == InitSubjects /\ [][NextSubjects]_vars

\* ================================================================== claims
UndoCalled == undoRet'.n # undoRet.n

\* the steps of attempt a: its position or its result changes
StepOf(a) == << pc[a], poll[a], wake[a], ret[a] >>
               # << pc'[a], poll'[a], wake'[a], ret'[a] >>

\* ids of the captures saved before the most recently saved one
Superseded == { saves[k].id : k \in 1..(Len(saves) - 1) }

\* C1: in every reachable state at most one capture attempt is acquiring
\* (launching the snipping tool, polling the clipboard or waiting for the
\* screencapture child): a superseded attempt has ended before the new one
\* starts its acquisition.
C1_AtMostOneAcquiring ==
  \A a, b \in Attempts :
    (pc[a] \in Acquiring /\ pc[b] \in Acquiring) => a = b

\* C2: an attempt whose cancellation handle has been aborted by a later
\* triggerCapture never reaches Saved.
C2_SupersededNeverSaved ==
  \A a \in Attempts : a \in aborted => ret[a] # "card"

\* C3 (as claimed): undo(id) returns ok:true if and only if an UndoToken
\* exists, its cardId equals id and the call is at or before expiresAt.
C3_UndoOkIffTokenValid ==
  [][ UndoCalled =>
        ( undoRet'.ok <=>
            ( /\ lastUndo # NoUndo
              /\ lastUndo.id = undoRet'.id
              /\ now <= lastUndo.expiresAt ) ) ]_vars

\* C3 (amended): undo(id) returns ok:true if and only if an UndoToken exists,
\* its cardId equals id, the call is at or before expiresAt, and neither the
\* removal of the image file nor the deletion of the row fails; a call later
\* than save time + 5000 ms returns ok:false and leaves the cards as they are.
C3_UndoOkIffValidAndRemoved ==
  [][ UndoCalled =>
        /\ undoRet'.ok <=>
             ( /\ lastUndo # NoUndo
               /\ lastUndo.id = undoRet'.id
               /\ now <= lastUndo.expiresAt
               /\ undoRet'.error = NoError )
        /\ undoRet'.error = ErrNoEntry => lastUndo.absolutePath \notin files
        /\ undoRet'.error # NoError => lastUndo # NoUndo
        /\ \A k \in 1..Len(saves) :
             ( saves[k].id = undoRet'.id
               /\ now > saves[k].at + UNDO_WINDOW_MS )
             => (~undoRet'.ok /\ cards' = cards) ]_vars

\* a call 5001 ms after the save of a capture whose token and card are still
\* there has returned ok:false
C3_Witness ==
  /\ undoRet.n > 0
  /\ ~undoRet.ok
  /\ lastUndo # NoUndo
  /\ lastUndo.id = undoRet.id
  /\ undoRet.id \in DOMAIN cards
  /\ \E k \in 1..Len(saves) :
       saves[k].id = undoRet.id /\ now = saves[k].at + UNDO_WINDOW_MS + 1

\* C4: whenever undo(id) returns ok:false the call has changed nothing: the
\* persisted cards, the image files and the UndoToken are as before.
C4_FailedUndoChangesNothing ==
  [][ (UndoCalled /\ ~undoRet'.ok) => UNCHANGED << cards, files, lastUndo >>
    ]_vars

\* C5: once a later capture has been saved, undo of an earlier saved capture
\* returns ok:false, whatever the time and whether or not the later capture
\* has been undone.
C5_UndoOnlyMostRecent ==
  [][ (UndoCalled /\ undoRet'.id \in Superseded) => ~undoRet'.ok ]_vars

\* undo of the earlier capture was refused inside its own window, after the
\* later capture had been undone
C5_Witness ==
  /\ undoRet.n = 2
  /\ ~undoRet.ok
  /\ Len(saves) = 2
  /\ undoRet.id = saves[1].id
  /\ undoRet.undone = {saves[2].id}
  /\ now <= saves[1].at + UNDO_WINDOW_MS

\* C6: after undo(id) returns ok:true no card with that id is persisted, the
\* image file of that capture is gone and the UndoToken is absent; a later
\* undo(id) returns ok:false.
C6_UndoRemovesAndIsSingleUse ==
  [][ /\ (UndoCalled /\ undoRet'.ok) => lastUndo' = NoUndo
      /\ (UndoCalled /\ undoRet'.id \in undoRet.undone) => ~undoRet'.ok
      /\ \A id \in undoRet'.undone :
           /\ id \notin DOMAIN cards'
           /\ \A f \in files' : f[2] # id ]_vars

\* the second undo of a capture that had been undone has returned ok:false
C6_Witness ==
  /\ undoRet.n = 2
  /\ undoRet.id \in undoRet.undone
  /\ ~undoRet.ok

\* C7: a card is persisted only by an attempt whose acquisition returned image
\* bytes: no step of an attempt that does not end Saved changes the persisted
\* cards, the image files or the UndoToken.
C7_OnlySavedAttemptsPersist ==
  [][ /\ \A a \in Attempts :
           (StepOf(a) /\ ret'[a] # "card")
           => UNCHANGED << cards, files, lastUndo >>
      /\ \A id \in DOMAIN cards' \ DOMAIN cards :
           /\ ret[id] = "pending"
           /\ ret'[id] = "card"
           /\ src'[id] # 0
           /\ cards'[id].imagePath \in files' ]_vars

\* an attempt has ended cancelled, another timed out, and a card, its file
\* and an UndoToken exist
C7_Witness ==
  /\ \E a \in Attempts : ret[a] = "null" /\ err[a] \in {ErrCancelled, ErrTimedOut}
  /\ cards # << >>
  /\ files # {}
  /\ lastUndo # NoUndo

C9_SaveOpensUndoWindow ==
  [][ \A a \in Attempts :
        (ret[a] = "pending" /\ ret'[a] = "card") =>
          /\ lastUndo' = [ id |-> a, absolutePath |-> <<subj[a], a>>,
                           expiresAt |-> now' + 5000 ]
          /\ lastUndo'.absolutePath \in files'
          /\ out'[a] = << [ type |-> "capture:saved", id |-> a,
                            expiresInMs |-> 5000 ] >> ]_vars

\* a second capture was saved while the window of the first was still open,
\* and the token is the second's
C9_Witness ==
  /\ Len(saves) = 2
  /\ saves[2].at <= saves[1].at + UNDO_WINDOW_MS
  /\ saves[1].id \notin undoRet.undone
  /\ lastUndo.id = saves[2].id
  /\ lastUndo.expiresAt = saves[2].at + UNDO_WINDOW_MS

\* C10: every card created by a capture is persisted with state = new,
\* dueAt = createdAt, ease = 2.3, intervalDays = 0, reps = 0, lapses = 0 and
\* no lastReviewedAt; until it is graded it is counted by dueCount and
\* eligible for nextDue at every now >= createdAt.
C10_FreshCardIsDue ==
  \A c \in DOMAIN cards :
    cards[c].lastReviewedAt = NoTime =>
      /\ cards[c].state = "new"
      /\ cards[c].dueAt = cards[c].createdAt
      /\ cards[c].ease = 230
      /\ cards[c].intervalDays = [num |-> 0, exp |-> 0]
      /\ cards[c].reps = 0
      /\ cards[c].lapses = 0
      /\ cards[c].createdAt <= now
      /\ \A t \in {cards[c].createdAt, now} :
           /\ getDueCount(cards[c].subjectId, t) >= 1
           /\ getNextDueCapture(cards[c].subjectId, t) # {}

\* a card created after time 0 is still fresh while another has been graded
C10_Witness ==
  /\ \E c \in DOMAIN cards :
       cards[c].lastReviewedAt = NoTime /\ cards[c].createdAt > 0
  /\ \E c \in DOMAIN cards : cards[c].lastReviewedAt # NoTime

\* a review:grade call has returned; it graded the card it names
GradeCalled == gradeRet'.n # gradeRet.n
GradeTookEffect == GradeCalled /\ gradeRet'.res = "ok"

\* C11: whatever the ratings, every persisted state of a card that started
\* fresh has 1.3 <= ease <= 2.8 and intervalDays >= 0.
C11_EaseAndIntervalBounds ==
  \A c \in DOMAIN cards :
    /\ 130 <= cards[c].ease
    /\ cards[c].ease <= 280
    /\ cards[c].intervalDays.num >= 0
    /\ cards[c].intervalDays.exp >= 0

\* the sixth again in a row has left the ease at its floor
C11_Witness ==
  /\ 1 \in DOMAIN cards
  /\ cards[1].ease = 130
  /\ cards[1].lapses = 6
  /\ gradeRet.res = "ok"

\* C12: again, from new, learning or review, yields state = learning,
\* intervalDays = 0, dueAt = now + 600000 ms, ease = max(1.3, ease - 0.2),
\* reps = 0 and lapses = lapses + 1.
C12_AgainRelearns ==
  [][ (GradeTookEffect /\ gradeRet'.rating = "again") =>
        LET old == cards[gradeRet'.id]
            new == cards'[gradeRet'.id]
        IN /\ new.state = "learning"
           /\ new.intervalDays = [num |-> 0, exp |-> 0]
           /\ new.dueAt = now + 600000
           /\ new.ease = IF old.ease - 20 < 130 THEN 130 ELSE old.ease - 20
           /\ new.reps = 0
           /\ new.lapses = old.lapses + 1 ]_vars

\* a card that went new, good (ease 2.35, reps 1) has been graded again
C12_Witness ==
  /\ gradeRet.rating = "again"
  /\ gradeRet.res = "ok"
  /\ 1 \in DOMAIN cards
  /\ cards[1].state = "learning"
  /\ cards[1].ease = 215
  /\ cards[1].reps = 0
  /\ cards[1].lapses = 1
  /\ cards[1].dueAt = now + 600000

\* C13: good (easy) on a new or learning card yields state = review,
\* intervalDays = 1 (3), dueAt = now + 1 day (3 days), ease = min(2.8, ease +
\* 0.05) (+ 0.15), reps = reps + 1 and the same lapses.
C13_Graduation ==
  [][ ( /\ GradeTookEffect
        /\ gradeRet'.rating \in {"good", "easy"}
        /\ cards[gradeRet'.id].state \in {"new", "learning"} ) =>
        LET old == cards[gradeRet'.id]
            new == cards'[gradeRet'.id]
            days == IF gradeRet'.rating = "good" THEN 1 ELSE 3
            bonus == IF gradeRet'.rating = "good" THEN 5 ELSE 15
        IN /\ new.state = "review"
           /\ new.intervalDays = [num |-> days, exp |-> 0]
           /\ new.dueAt = now + days * 86400000
           /\ new.ease = IF old.ease + bonus > 280 THEN 280 ELSE old.ease + bonus
           /\ new.reps = old.reps + 1
           /\ new.lapses = old.lapses ]_vars

\* a learning card (it has a lapse) has been graduated with easy
C13_Witness ==
  /\ gradeRet.rating = "easy"
  /\ gradeRet.res = "ok"
  /\ 1 \in DOMAIN cards
  /\ cards[1].state = "review"
  /\ cards[1].intervalDays = [num |-> 3, exp |-> 0]
  /\ cards[1].reps = 1
  /\ cards[1].lapses = 2
  /\ cards[1].lastReviewedAt = now

\* C14: good (easy) on a review card yields state = review, intervalDays =
\* max(1, interval * ease) (max(1, interval * ease * 1.3)) with the ease of
\* before the grade, dueAt = now + that many days rounded to the nearest
\* millisecond, ease = min(2.8, ease + 0.02) (+ 0.10), reps = reps + 1 and
\* the same lapses.
C14_ReviewGrowth ==
  [][ ( /\ GradeTookEffect
        /\ gradeRet'.rating \in {"good", "easy"}
        /\ cards[gradeRet'.id].state = "review" ) =>
        LET old == cards[gradeRet'.id]
            new == cards'[gradeRet'.id]
            good == gradeRet'.rating = "good"
            product ==
              IF good
              THEN [num |-> old.intervalDays.num * old.ease,
                    exp |-> old.intervalDays.exp + 2]
              ELSE [num |-> old.intervalDays.num * old.ease * 13,
                    exp |-> old.intervalDays.exp + 3]
            bonus == IF good THEN 2 ELSE 10
            q == new.intervalDays
            unit == Pow10(q.exp)
            rest == new.dueAt - now - (q.num \div unit) * 86400000
            frac == q.num % unit
        IN /\ new.state = "review"
           /\ q = IF product.num < Pow10(product.exp)
                  THEN [num |-> 1, exp |-> 0] ELSE Norm(product)
           /\ IF q.exp <= 5
              THEN rest = frac * 864 * Pow10(5 - q.exp)
              ELSE LET scale == Pow10(q.exp - 5)
                       off == 2 * (rest * scale - frac * 864)
                   IN 0 - scale <= off /\ off <= scale
           /\ new.ease = IF old.ease + bonus > 280 THEN 280 ELSE old.ease + bonus
           /\ new.reps = old.reps + 1
           /\ new.lapses = old.lapses ]_vars

\* the card of ease 2.75 and 3 days has been graded easy: 10.725 days, and
\* the ease stopped at 2.8
C14_Witness ==
  /\ gradeRet.rating = "easy"
  /\ gradeRet.res = "ok"
  /\ 1 \in DOMAIN cards
  /\ cards[1].intervalDays = [num |-> 10725, exp |-> 3]
  /\ cards[1].ease = 280
  /\ cards[1].reps = 2
  /\ cards[1].dueAt = now + 926640000

\* C15: a grade with good or easy never moves dueAt to an earlier time than
\* the card's dueAt before the grade, whether or not the card was due.
C15_DueAtNeverEarlier ==
  [][ (GradeTookEffect /\ gradeRet'.rating \in {"good", "easy"}) =>
        cards'[gradeRet'.id].dueAt >= cards[gradeRet'.id].dueAt ]_vars

\* the card of 3 days was graded good three days before it was due
C15_Witness ==
  /\ gradeRet.rating = "good"
  /\ gradeRet.res = "ok"
  /\ now = SESSION_HOUR_MS
  /\ 1 \in DOMAIN cards
  /\ cards[1].ease = 277
  /\ cards[1].intervalDays = [num |-> 825, exp |-> 2]
  /\ cards[1].dueAt > SESSION_HOUR_MS + 3 * MS_PER_DAY

\* C16: dueCount(subject, now) is the number of persisted cards of the
\* subject with dueAt <= now; nextDue(subject, now) returns a card of the
\* subject with dueAt <= now that is least in the order (dueAt, createdAt),
\* and returns absent exactly when no card of the subject is due.
C16_DueCountAndNextDue ==
  \A s \in ReviewSubjects, t \in ReviewTimes :
    LET due == { c \in DOMAIN cards :
                   cards[c].subjectId = s /\ cards[c].dueAt <= t }
    IN /\ getDueCount(s, t) = Cardinality(due)
       /\ getNextDueCapture(s, t) \subseteq due
       /\ \A c \in getNextDueCapture(s, t), d \in due :
            \/ cards[c].dueAt < cards[d].dueAt
            \/ /\ cards[c].dueAt = cards[d].dueAt
               /\ cards[c].createdAt <= cards[d].createdAt
       /\ (getNextDueCapture(s, t) = {}) <=> (due = {})

\* two cards of one subject: the one created first has been graded and is
\* due later than the other
C16_Witness ==
  \E c, d \in DOMAIN cards :
    /\ cards[c].subjectId = cards[d].subjectId
    /\ cards[c].createdAt < cards[d].createdAt
    /\ cards[c].dueAt > cards[d].dueAt
    /\ cards[c].dueAt <= now + EASY_GRAD_DAYS * MS_PER_DAY

\* C17: grade never throws: it returns ok:false with an error when no card
\* with the id is persisted, leaving the cards as they are, and ok:true in
\* every other case, in every state of the session, before the database is
\* initialised and after shutdown included.
C17_GradeNeverThrows ==
  [][ GradeCalled =>
        \/ /\ gradeRet'.res = "Card not found"
           /\ gradeRet'.id \notin DOMAIN cards
           /\ cards' = cards
        \/ /\ gradeRet'.res = "ok"
           /\ gradeRet'.id \in DOMAIN cards ]_vars

\* C18: a successful grade of a card sets its lastReviewedAt to now, leaves
\* its id, subjectId, imagePath and createdAt and every other card as they
\* are; no other operation changes a field of a card that stays persisted.
C18_GradeFrame ==
  [][ /\ GradeTookEffect =>
           LET old == cards[gradeRet'.id]
               new == cards'[gradeRet'.id]
           IN /\ new.lastReviewedAt = now
              /\ new.id = old.id
              /\ new.subjectId = old.subjectId
              /\ new.imagePath = old.imagePath
              /\ new.createdAt = old.createdAt
              /\ DOMAIN cards' = DOMAIN cards
              /\ \A c \in DOMAIN cards \ {gradeRet'.id} : cards'[c] = cards[c]
      /\ ~GradeTookEffect =>
           \A c \in DOMAIN cards \cap DOMAIN cards' : cards'[c] = cards[c]
    ]_vars

\* a card was graded, then a second capture was saved and undone: the graded
\* card is still there
C18_Witness ==
  /\ Len(saves) = 2
  /\ undoRet.undone = {saves[2].id}
  /\ saves[1].id \in DOMAIN cards
  /\ cards[saves[1].id].lastReviewedAt # NoTime
  /\ cards[saves[1].id].lastReviewedAt < saves[2].at

C20_PollTerminates ==
  /\ [][ \A a \in Attempts :
           (pc[a] = "poll" /\ StepOf(a)) =>
             /\ poll[a] < maxAttempts
             /\ \/ pc'[a] = "done"
                \/ pc'[a] = "poll" /\ poll'[a] = poll[a] + 1
             /\ poll[a] = maxAttempts - 1 => pc'[a] = "done"
             /\ pc'[a] = "done" =>
                  \/ clipboard # 0 /\ (ret'[a] = "card" \/ err'[a] = "io error")
                  \/ /\ clipboard = 0
                     /\ ret'[a] = "null"
                     /\ err'[a] \in { "Screenshot cancelled",
                                      "Screenshot timed out - please try again" }
             /\ (poll[a] = maxAttempts - 1 /\ clipboard = 0) =>
                  /\ ret'[a] = "null"
                  /\ err'[a] = "Screenshot timed out - please try again"
                  /\ out'[a] = << [ type |-> "toast",
                                    message |-> "Screenshot timed out - please try again" ] >>
                  /\ cards' = cards /\ files' = files /\ lastUndo' = lastUndo
       ]_vars
  /\ \A a \in Attempts : (pc[a] = "poll") ~> (pc[a] = "done")

\* an attempt has timed out after all its polls while nothing aborted it
C20_Witness ==
  \E a \in Attempts :
    /\ pc[a] = "done"
    /\ err[a] = ErrTimedOut
    /\ a \notin aborted
    /\ now >= maxAttempts * intervalMs

\* C21: cancellation interrupts the acquisition: an attempt whose signal
\* has been raised while it acquires ends as "Screenshot cancelled" at its
\* next step, on the polling branch and on the branch that waits for the
\* external capture process alike.
C21_AbortEndsAsCancelled ==
  [][ \A a \in Attempts :
        (a \in aborted /\ pc[a] \in {"poll", "spawn"} /\ StepOf(a)) =>
          /\ pc'[a] = "done"
          /\ ret'[a] = "null"
          /\ err'[a] = "Screenshot cancelled"
    ]_vars

\* C22: when the overlay regains focus while an acquisition is pending and
\* the clipboard is empty at the check, the pending attempt is signalled and
\* ends as a silent cancellation, with no card and no notice; a focus with
\* no acquisition pending, or a check that finds an image, changes nothing
\* of the captures.
C22_FocusCancelsSilently ==
  [][ /\ \A a \in Attempts :
           (a \in focus.aborted /\ pc[a] \in {"poll", "spawn"} /\ StepOf(a)) =>
             /\ pc'[a] = "done"
             /\ ret'[a] = "null"
             /\ err'[a] = "Screenshot cancelled"
             /\ out'[a] = out[a]
             /\ cards' = cards
      /\ (focus'.n # focus.n
            /\ ~(captureInProgress /\ captureAbortController # NoController)) =>
           /\ focus'.wake = focus.wake
           /\ aborted' = aborted
      /\ (focus'.wake # focus.wake /\ focus'.n = focus.n) =>
           aborted' = IF clipboard = 0 /\ captureAbortController # NoController
                      THEN aborted \cup {captureAbortController}
                      ELSE aborted
    ]_vars

\* C23: the subject a capture is stored under is the cleaned id when that
\* names an existing subject and 'inbox' otherwise: a capture that begins
\* takes a subject that exists or 'inbox'; one that begins after the grace
\* delay takes the lower-cased, stripped id it was called with when that is
\* not empty and names a subject, and 'inbox' when not; the card and the
\* file of a saved capture are under the subject the capture took.
C23_SubjectFallback ==
  [][ \A a \in Attempts :
        /\ (pc[a] \notin Acquiring /\ pc'[a] \in Acquiring) =>
             \/ subj'[a] = <<"i", "n", "b", "o", "x">>
             \/ subj'[a] \in DOMAIN subjects
        /\ (pc[a] = "grace" /\ pc'[a] \in Acquiring) =>
             LET clean == stripDisallowed(trim(toLowerCase(subj[a]))) IN
             subj'[a] = IF clean # << >> /\ clean \in DOMAIN subjects
                        THEN clean ELSE <<"i", "n", "b", "o", "x">>
        /\ (ret[a] = "pending" /\ ret'[a] = "card") =>
             /\ << subj[a], a >> \in files'
             /\ a \in DOMAIN cards' => cards'[a].subjectId = subj[a]
    ]_vars

\* a capture called with " M!" is stored under the subject m, and another
\* capture is stored under inbox
C23_Witness ==
  \E a, b \in DOMAIN cards :
    /\ cards[a].subjectId = <<"m">>
    /\ cards[b].subjectId = INBOX
    /\ ret[a] = "card" /\ ret[b] = "card"

\* C26: the in-flight marker is set exactly while an attempt acquires, and
\* the controller kept with it is the one of the latest attempt acquiring.
C26_MarkerIffAcquiring ==
  LET acquiring == { a \in Attempts : pc[a] \in Acquiring } IN
  /\ captureInProgress = (acquiring # {})
  /\ captureAbortController =
       IF acquiring = {} THEN NoController
       ELSE CHOOSE a \in acquiring : \A b \in acquiring : b <= a

\* C27: when a capture opens an undo window or reports capture:saved for an
\* id, the card with that id is in the store at that moment.
C27_SavedMeansPersisted ==
  [][ /\ \A a \in Attempts :
           (Len(out'[a]) > Len(out[a])
              /\ out'[a][Len(out'[a])].type = "capture:saved") =>
             out'[a][Len(out'[a])].id \in DOMAIN cards'
      /\ (lastUndo' # lastUndo /\ lastUndo' # NoUndo) =>
           lastUndo'.id \in DOMAIN cards'
    ]_vars

\* C28: no two attempts store a card from the same clipboard content.
C28_OneCardPerImage ==
  \A a, b \in DOMAIN cards :
    (a # b /\ ret[a] = "card" /\ ret[b] = "card") => src[a] # src[b]

\* C24: once the store is initialised the subject inbox exists under its
\* original name in every state, whatever subjects are created, renamed and
\* deleted; a rename or a delete of inbox is turned down and leaves the
\* subjects table as it was.
C24_InboxIsPermanent ==
  /\ [] ( appState # "loaded" =>
            /\ <<"i", "n", "b", "o", "x">> \in DOMAIN subjects
            /\ subjects[<<"i", "n", "b", "o", "x">>] = <<"I", "n", "b", "o", "x">> )
  /\ [][ ( subjectRet'.n # subjectRet.n
             /\ subjectRet'.id = <<"i", "n", "b", "o", "x">> ) =>
           /\ \/ subjectRet'.op = "rename" /\ subjectRet'.res \in {"null", "error"}
              \/ subjectRet'.op = "delete" /\ subjectRet'.res = "refused"
           /\ subjects' = subjects
           /\ cards' = cards
           /\ files' = files
       ]_vars

\* inbox was asked to be renamed to "inbox", which no other subject is
\* called, after another subject had been created, renamed and deleted
C24_Witness ==
  /\ subjectRet.n = MaxSubjectCalls
  /\ subjectRet.op = "rename"
  /\ subjectRet.id = INBOX
  /\ subjectRet.res = "null"
  /\ DOMAIN subjects = {INBOX}
  /\ subjects[INBOX] = <<"I", "n", "b", "o", "x">>

\* C25: the lapses of a card count the again ratings ever applied to it,
\* and its reps count the good and easy ratings applied since the most
\* recent again, or since its creation when there was none.
C25_LapsesAndReps ==
  \A id \in DOMAIN cards :
    /\ cards[id].lapses = gradeRet.agains[id]
    /\ cards[id].reps = gradeRet.since[id]

\* the card lapsed twice and was graded good or easy twice since
C25_Witness ==
  /\ 1 \in DOMAIN cards
  /\ gradeRet.agains[1] = 2
  /\ gradeRet.since[1] = 2
  /\ cards[1].lapses = 2
  /\ cards[1].reps = 2

\* C30: every card is well-formed: its state is new exactly when it has
\* never been graded, which is exactly when lastReviewedAt is absent; no
\* grade produces the state new; a new or learning card has intervalDays 0
\* and reps 0; a learning card has lapsed at least once; a review card has
\* intervalDays of at least 1 and at least one rep.
C30_CardsWellFormed ==
  /\ [] ( \A id \in DOMAIN cards :
            LET c == cards[id] IN
            /\ (c.state = "new") = (id \notin gradeRet.graded)
            /\ (c.state = "new") = (c.lastReviewedAt = 0 - 1)
            /\ c.state \in {"new", "learning", "review"}
            /\ c.state \in {"new", "learning"} =>
                 /\ c.intervalDays = [num |-> 0, exp |-> 0]
                 /\ c.reps = 0
            /\ c.state = "learning" => c.lapses >= 1
            /\ c.state = "review" =>
                 /\ c.intervalDays.num >= Pow10(c.intervalDays.exp)
                 /\ c.reps >= 1 )
  /\ [][ GradeTookEffect => cards'[gradeRet'.id].state # "new" ]_vars

\* a card that was new has graduated, lapsed and is being relearned
C30_Witness ==
  /\ 1 \in DOMAIN cards
  /\ cards[1].state = "learning"
  /\ cards[1].createdAt = 0
  /\ cards[1].lastReviewedAt = now
  /\ cards[1].ease < EASE_START
  /\ gradeRet.since[1] = 0
  /\ gradeRet.n >= 2

\* C29: a grade that took effect leaves the card due later than the time
\* of the grade; grading a card that was due takes exactly that card out of
\* the due cards of its subject, so the due count falls by one; the card
\* just graded is not the next due card at the same time; and a review loop
\* that grades the next due card at one fixed time shows no card after as
\* many grades as cards were due when it began, and not before.
C29_GradeRemovesFromDue ==
  /\ [][ GradeTookEffect =>
           LET id == gradeRet'.id
               due == { c \in DOMAIN cards :
                          /\ cards[c].subjectId = cards[id].subjectId
                          /\ cards[c].dueAt <= now }
               dueAfter == { c \in DOMAIN cards' :
                               /\ cards'[c].subjectId = cards[id].subjectId
                               /\ cards'[c].dueAt <= now }
           IN /\ cards'[id].dueAt > now
              /\ id \in due =>
                   /\ dueAfter = due \ {id}
                   /\ Cardinality(dueAfter) = Cardinality(due) - 1
       ]_vars
  /\ [][ ( review'.done # review.done
             /\ gradeRet.id \in DOMAIN cards
             /\ cards[gradeRet.id].lastReviewedAt = now ) =>
           review'.card # gradeRet.id
       ]_vars
  /\ [] ( (review.open /\ review.at = now /\ review.calls = gradeRet.n) =>
            /\ review.done <= review.start
            /\ (review.card = 0) = (review.done = review.start) )

\* a loop over two due cards has graded both at the time it began and shows
\* no card
C29_Witness ==
  /\ review.open
  /\ review.at = now
  /\ review.start = 2
  /\ review.done = 2
  /\ review.card = 0
  /\ review.calls = gradeRet.n

====
